---- MODULE Spec2Model ----
(***************************************************************************)
(* Model of rust-heart: the SimpleHeart ECG generator (src/src/lib.rs),    *)
(* its noise generators (src/src/noisegen.rs) and the C boundary           *)
(* (src/src/wrappers.rs, src/src/freeing.rs).                              *)
(*                                                                         *)
(* One engine, created by build_simple_heart(bpm, amplitude), is shared by *)
(* the caller threads of the host process and by the background loop that  *)
(* start_beat spawns.  The three mutexes of the program are modelled with  *)
(* their holder and their poison flag:                                     *)
(*   mutexHeart   Arc<Mutex<SimpleHeart>>           (wrappers.rs:7)        *)
(*   mutexNoises  SimpleHeart.attached_noises       (lib.rs:90)            *)
(*   mutexOutput  SimpleHeart.output_value          (lib.rs:93)            *)
(* A panic of the loop thread ends that thread and poisons the mutexes it  *)
(* holds; a panic inside an extern "C" function aborts the process.        *)
(*                                                                         *)
(* Floating point values are kept exact: a sample is the record of its     *)
(* tick, its five lobe terms (each a fraction <<num, den>> in units of     *)
(* 1/10000, den = 0 standing for the non-finite result of a division by    *)
(* 0.0), the engine amplitude and the list of noise terms that were added. *)
(***************************************************************************)
EXTENDS Integers, Sequences, FiniteSets, TLC

(***************************************************************************)
(* Bounds of the model.                                                    *)
(***************************************************************************)
\* The iterations of the loop for current_tick = 0 .. MaxTick are explored.
MaxTick == 2
\* Boundary calls the caller threads make on the engine, all together.
MaxCalls == 3
\* Capacity of output_value.  The source's limit is 5000 (lib.rs:212); the
\* model keeps the comparison and scales the number so that a full buffer
\* is reached within MaxTick ticks.
OutputLimit == 2

Callers == {"c1", "c2"}
LoopThread == "loop"
Threads == Callers \cup {LoopThread}

(***************************************************************************)
(* Inputs.                                                                 *)
(***************************************************************************)
\* bpm arguments of build_simple_heart
BpmSet == {60}
\* amplitude argument of build_simple_heart
AmplitudeSet == {2}
\* freq arguments of simple_heart_start
FreqSet == {0, 2000}
\* (noise_type, amplitude, freq) arguments of simple_heart_add_noise
NoiseArgs ==
    { [kind |-> "MainsNoise", amplitude |-> 1, frequency |-> 0],
      [kind |-> "MainsNoise", amplitude |-> 1, frequency |-> 50],
      [kind |-> "RandomNoise", amplitude |-> 1, frequency |-> 50] }

(***************************************************************************)
(* Pure functions.                                                         *)
(***************************************************************************)
Abs(x) == IF x < 0 THEN 0 - x ELSE x

\* 1000 / actual_baud divides by zero for freq = 0: the thread panics.
wait_time_panics(freq) == freq = 0

actual_thread_wait_time(freq) ==
    LET actual_baud == IF freq > 1000 THEN 1000 ELSE freq
    IN  <<1000 \div actual_baud, actual_baud>>

\* The wave lengths of SimpleHeart::new, converted to ticks the way the loop
\* does it, (x * timings[1] as f64) as u64, in IEEE double arithmetic, for
\* the bpm arguments 60, 120 and 20000 and the rates 1, 20, 125, 500 and
\* 1000.  A negative length converts to 0.
\*   r_to_r  total_r_to_r               p     p_duration
\*   p_pq    p_duration+p_to_q_interval q     q_duration
\*   r       r_duration                 s     s_duration
\*   s_st    s_duration+s_to_t_interval t     t_duration
tick_lengths(bpm, rate) ==
    CASE bpm = 60 /\ rate = 1 ->
           [r_to_r |-> 1, p |-> 0, p_pq |-> 0, q |-> 0, r |-> 0,
            s |-> 0, s_st |-> 0, t |-> 0]
      [] bpm = 60 /\ rate = 20 ->
           [r_to_r |-> 20, p |-> 1, p_pq |-> 3, q |-> 0, r |-> 0,
            s |-> 0, s_st |-> 2, t |-> 4]
      [] bpm = 60 /\ rate = 500 ->
           [r_to_r |-> 500, p |-> 45, p_pq |-> 80, q |-> 8, r |-> 14,
            s |-> 12, s_st |-> 52, t |-> 110]
      [] bpm = 60 /\ rate = 1000 ->
           [r_to_r |-> 1000, p |-> 90, p_pq |-> 160, q |-> 16, r |-> 29,
            s |-> 24, s_st |-> 104, t |-> 220]
      [] bpm = 120 /\ rate = 125 ->
           [r_to_r |-> 62, p |-> 11, p_pq |-> 19, q |-> 2, r |-> 4,
            s |-> 3, s_st |-> 8, t |-> 20]
      [] bpm = 20000 /\ rate = 500 ->
           [r_to_r |-> 1, p |-> 0, p_pq |-> 0, q |-> 0, r |-> 0,
            s |-> 0, s_st |-> 16, t |-> 0]
      [] bpm = 20000 /\ rate = 1000 ->
           [r_to_r |-> 3, p |-> 0, p_pq |-> 0, q |-> 0, r |-> 0,
            s |-> 0, s_st |-> 33, t |-> 0]

\* WaveAmps, in units of 1/10000
PWAVE == 1500
QWAVE == 156
RWAVE == 10000
SWAVE == 1563
TWAVE == 2188

\* the literal 0.0 a segment returns outside its window
ZeroValue == <<0, 1>>

\* lib.rs:279  -(tick_now - peak_tick).abs() + peak, in i128
triangle_shape(tick_now, tick_begin, duration) ==
    LET peak == duration \div 2
        peak_tick == tick_begin + peak
    IN  peak - Abs(tick_now - peak_tick)

\* output as f64 * gain, with gain = ampl / peak: the fraction
\* <<output * ampl, peak>>; peak = 0 makes gain non-finite.
triangle(tick_now, tick_begin, duration, ampl) ==
    LET peak == duration \div 2
    IN  IF tick_now < tick_begin \/ tick_now > tick_begin + duration
        THEN ZeroValue
        ELSE <<triangle_shape(tick_now, tick_begin, duration) * ampl, peak>>

\* lib.rs:300  -((tick_now - center_tick) * (tick_now - center_tick)) + a, in i128
second_order_shape(tick_now, tick_begin, duration) ==
    LET a == (duration * duration) \div 4
        center_tick == tick_begin + (duration \div 2)
    IN  a - (tick_now - center_tick) * (tick_now - center_tick)

second_order(tick_now, tick_begin, duration, ampl) ==
    LET a == (duration * duration) \div 4
    IN  IF tick_now < tick_begin \/ tick_now > tick_begin + duration
        THEN ZeroValue
        ELSE <<second_order_shape(tick_now, tick_begin, duration) * ampl, a>>

\* The five lobes the loop adds up for one tick, in the order it adds them.
waveform(current_tick, beat_start, d) ==
    LET delay_q == beat_start + d.p_pq
        delay_r == delay_q + d.q
        delay_s == delay_r + d.r
        delay_t == delay_s + d.s_st
    IN  << second_order(current_tick, beat_start, d.p, PWAVE),
           triangle(current_tick, delay_q, d.q, 0 - QWAVE),
           triangle(current_tick, delay_r, d.r, RWAVE),
           triangle(current_tick, delay_s, d.s, 0 - SWAVE),
           second_order(current_tick, delay_t, d.t, TWAVE) >>

\* Does get_tick_noise panic?  MainsNoise divides _tick_freq by its
\* frequency; RandomNoise samples the range 0.0..amplitude, which must not
\* be empty.
noise_panics(n) ==
    \/ n.kind = "MainsNoise" /\ n.frequency = 0
    \/ n.kind = "RandomNoise" /\ n.amplitude <= 0

\* Variant of get_tick_noise: the wave length of the mains hum is the tick
\* frequency itself.
get_tick_noise_per_second(n, current_tick, tick_freq) ==
    IF n.kind = "MainsNoise"
    THEN LET wave_len == tick_freq
         IN  IF wave_len = 0
             THEN [fn |-> "zero", num |-> 0, den |-> 1, amplitude |-> 0]
             ELSE [fn |-> "sin", num |-> (current_tick % wave_len) + n.tick_shift,
                   den |-> wave_len, amplitude |-> n.amplitude]
    ELSE [fn |-> "random_range", num |-> 0, den |-> 1, amplitude |-> n.amplitude]

\* The term one noise generator contributes: sin(num/den * 2 PI) * amplitude
\* for the mains hum, the literal 0.0 when wave_len is 0, and for the random
\* noise a draw of random_range(0.0..amplitude): the term names the range
\* the value is drawn from, it stands for any value of [0, amplitude).
get_tick_noise(n, current_tick, tick_freq) ==
    IF n.kind = "MainsNoise"
    THEN LET wave_len == tick_freq \div n.frequency
         IN  IF wave_len = 0
             THEN [fn |-> "zero", num |-> 0, den |-> 1, amplitude |-> 0]
             ELSE [fn |-> "sin", num |-> (current_tick % wave_len) + n.tick_shift,
                   den |-> wave_len, amplitude |-> n.amplitude]
    ELSE [fn |-> "random_range", num |-> 0, den |-> 1, amplitude |-> n.amplitude]

\* MainsNoise::new / RandomNoise::new
new_noise(arg) ==
    IF arg.kind = "MainsNoise"
    THEN [kind |-> "MainsNoise", amplitude |-> arg.amplitude,
          frequency |-> arg.frequency, tick_shift |-> 0]
    ELSE [kind |-> "RandomNoise", amplitude |-> arg.amplitude,
          frequency |-> 0, tick_shift |-> 0]

\* final_noise of calculate_noise: 0.0 plus one term per attached noise, in
\* list order.  The sum is kept as the sequence of its terms.
calculate_noise(noises, current_tick, tick_freq) ==
    [i \in 1..Len(noises) |->
        get_tick_noise(noises[i], current_tick, tick_freq)]

calculate_noise_panics(noises) ==
    \E i \in 1..Len(noises) : noise_panics(noises[i])

(***************************************************************************)
(* State.                                                                  *)
(***************************************************************************)
VARIABLES
    handle,          \* the Box<Arc<Mutex<SimpleHeart>>> the host holds: "live" / "freed"
    heartRefs,       \* strong count of the Arc<Mutex<SimpleHeart>>
    outputRefs,      \* strong count of the Arc<Mutex<Vec<f64>>> output_value
    profile,         \* [bpm, amplitude]: the fields SimpleHeart::new computes from
    active,          \* SimpleHeart.active
    attached_noises, \* SimpleHeart.attached_noises
    output_value,    \* SimpleHeart.output_value
    mutexHeart,      \* holder of the engine mutex: {} or {thread}
    mutexNoises,     \* holder of the attached_noises mutex
    mutexOutput,     \* holder of the output_value mutex
    poisonHeart,     \* poison flags of the three mutexes
    poisonNoises,
    poisonOutput,
    loop,            \* the spawned thread: its position and the locals of the closure
    pc,              \* position of each caller thread inside its boundary call
    call,            \* the boundary call a caller thread is in, with its arguments
    ret,             \* the Vec<f64> the last simple_heart_read of a thread handed back
    calls,           \* boundary calls made so far on the engine
    crashed,         \* a panic left an extern "C" function: the process aborted
    appended,        \* history: every sample pushed to output_value, in order
    drained,         \* history: the arrays the reads handed back, one after the other
    expect,          \* history: the samples pushed since the last drain, when that read was served
    swaps,           \* history: the start calls that did the swap on active, in order
    spawns,          \* history: the thread::spawn calls, in order
    resetDone,       \* history: reset_noise cleared the list and nothing was attached since
    probe            \* the call of a function on its own: its arguments and what it returns

engineVars == <<handle, heartRefs, outputRefs, profile, active, attached_noises, output_value>>
lockVars == <<mutexHeart, mutexNoises, mutexOutput, poisonHeart, poisonNoises, poisonOutput>>
callerVars == <<pc, call, ret, expect, calls>>
historyVars == <<appended, drained, swaps, spawns, resetDone>>
programVars == <<engineVars, lockVars, loop, callerVars, crashed, historyVars>>
vars == <<programVars, probe>>

\* No function is called on its own: the program runs.
NoProbe == [fn |-> "none"]

NoCall == [op |-> "none", freq |-> 0, amplitude |-> 0, noise |-> <<>>]

\* The thread does not exist before thread::spawn ("none"); "dead" after a panic.
LoopNone ==
    [pc |-> "none", freq |-> 0, amplitude |-> 0, timings |-> <<0, 0>>,
     current_tick |-> 0, this_beat_start_tick |-> 0,
     output_noise |-> <<>>, snapshot |-> <<>>, afterReset |-> FALSE,
     output |-> <<>>]

\* build_simple_heart(bpm, amplitude)
Init ==
    /\ handle = "live"
    /\ heartRefs = 1
    /\ outputRefs = 1
    /\ \E b \in BpmSet, a \in AmplitudeSet : profile = [bpm |-> b, amplitude |-> a]
    /\ active = FALSE
    /\ attached_noises = <<>>
    /\ output_value = <<>>
    /\ mutexHeart = {} /\ mutexNoises = {} /\ mutexOutput = {}
    /\ poisonHeart = FALSE /\ poisonNoises = FALSE /\ poisonOutput = FALSE
    /\ loop = LoopNone
    /\ pc = [c \in Callers |-> "idle"]
    /\ call = [c \in Callers |-> NoCall]
    /\ ret = [c \in Callers |-> <<>>]
    /\ calls = 0
    /\ crashed = FALSE
    /\ appended = <<>>
    /\ drained = <<>>
    /\ expect = [c \in Callers |-> <<>>]
    /\ swaps = <<>>
    /\ spawns = <<>>
    /\ resetDone = FALSE
    /\ probe = NoProbe

\* Dropping one reference to the engine; the engine's own reference to
\* output_value goes with the last one.
heart_refs_after_drop(n) == n - 1
output_refs_after_heart_drop(h, o) == IF h - 1 = 0 THEN o - 1 ELSE o

\* The engine state is allocated while a reference to it is left.
HeartAllocated == heartRefs > 0
OutputAllocated == outputRefs > 0

LoopRunning == loop.pc \notin {"none", "dead"}

(***************************************************************************)
(* The background loop, lib.rs:136-220.                                    *)
(***************************************************************************)
\* A panic unwinds the closure: the thread ends and drops this and output_value.
LoopPanics ==
    /\ loop' = [loop EXCEPT !.pc = "dead"]
    /\ heartRefs' = heart_refs_after_drop(heartRefs)
    /\ outputRefs' = output_refs_after_heart_drop(heartRefs, outputRefs) - 1

\* lib.rs:138-158
loop_init ==
    /\ ~crashed
    /\ loop.pc = "spawned"
    /\ IF wait_time_panics(loop.freq)
       THEN /\ LoopPanics
       ELSE /\ loop' = [loop EXCEPT !.pc = "lock_heart",
                                    !.timings = actual_thread_wait_time(loop.freq),
                                    !.current_tick = 0,
                                    !.this_beat_start_tick = 0]
            /\ UNCHANGED <<heartRefs, outputRefs>>
    /\ UNCHANGED <<handle, profile, probe, active, attached_noises, output_value>>
    /\ UNCHANGED <<lockVars, callerVars, crashed, historyVars>>

\* lib.rs:163  this.lock().unwrap()
loop_lock_heart ==
    /\ ~crashed
    /\ loop.pc = "lock_heart"
    /\ loop.current_tick <= MaxTick
    /\ mutexHeart = {}
    /\ IF poisonHeart
       THEN /\ LoopPanics
            /\ UNCHANGED mutexHeart
       ELSE /\ mutexHeart' = {LoopThread}
            /\ loop' = [loop EXCEPT !.pc = "lock_noises"]
            /\ UNCHANGED <<heartRefs, outputRefs>>
    /\ UNCHANGED <<handle, profile, probe, active, attached_noises, output_value>>
    /\ UNCHANGED <<mutexNoises, mutexOutput, poisonHeart, poisonNoises, poisonOutput>>
    /\ UNCHANGED <<callerVars, crashed, historyVars>>

\* lib.rs:175, 241  heart.calculate_noise: self.attached_noises.lock().unwrap()
\* The history fields snapshot and afterReset record the list and resetDone
\* as they are when the lock is taken.
loop_lock_noises ==
    /\ ~crashed
    /\ loop.pc = "lock_noises"
    /\ mutexNoises = {}
    /\ IF poisonNoises
       THEN /\ LoopPanics
            /\ mutexHeart' = {}
            /\ poisonHeart' = TRUE
            /\ UNCHANGED mutexNoises
       ELSE /\ mutexNoises' = {LoopThread}
            /\ loop' = [loop EXCEPT !.pc = "calculate_noise",
                                    !.snapshot = attached_noises,
                                    !.afterReset = resetDone]
            /\ UNCHANGED <<heartRefs, outputRefs, mutexHeart, poisonHeart>>
    /\ UNCHANGED <<handle, profile, probe, active, attached_noises, output_value>>
    /\ UNCHANGED <<mutexOutput, poisonNoises, poisonOutput>>
    /\ UNCHANGED <<callerVars, crashed, historyVars>>

\* lib.rs:175  the tick_freq argument of heart.calculate_noise(current_tick, freq)
noise_tick_freq(l) == l.freq

\* lib.rs:178, 191-199  the rate of the conversions to ticks: timings[1]
conversion_rate(l) == l.timings[2]

\* Variant of drop_heart_guard: the guard outlives the block.
keep_heart_guard(holders, t) == holders

\* lib.rs:176  the block ends: the guard heart is dropped
drop_heart_guard(holders, t) == holders \ {t}

\* Variant of drop_noises_guard: the guard outlives calculate_noise.
keep_noises_guard(holders, t) == holders

\* lib.rs:246  calculate_noise returns: the guard locked_noises is dropped
drop_noises_guard(holders, t) == holders \ {t}

\* lib.rs:165-176, 242-246  the copies of the wave lengths and the sum over
\* the attached noises; then the guards of attached_noises and of the engine
\* are dropped.  A panic of get_tick_noise unwinds through both guards: both
\* mutexes are poisoned and released.
loop_calculate_noise ==
    /\ ~crashed
    /\ loop.pc = "calculate_noise"
    /\ IF calculate_noise_panics(attached_noises)
       THEN /\ LoopPanics
            /\ poisonHeart' = TRUE /\ poisonNoises' = TRUE
            /\ mutexHeart' = {} /\ mutexNoises' = {}
       ELSE /\ mutexNoises' = drop_noises_guard(mutexNoises, LoopThread)
            /\ mutexHeart' = drop_heart_guard(mutexHeart, LoopThread)
            /\ loop' = [loop EXCEPT
                     !.pc = "compute",
                     !.output_noise = calculate_noise(attached_noises,
                                          loop.current_tick, noise_tick_freq(loop))]
            /\ UNCHANGED <<heartRefs, outputRefs, poisonHeart, poisonNoises>>
    /\ UNCHANGED <<handle, profile, probe, active, attached_noises, output_value>>
    /\ UNCHANGED <<mutexOutput, poisonOutput>>
    /\ UNCHANGED <<callerVars, crashed, historyVars>>

\* Variant of next_beat_start: the beat is over one tick later.
next_beat_start_late(current_tick, this_beat_start_tick, tick_r_to_r) ==
    IF current_tick - this_beat_start_tick > tick_r_to_r
    THEN current_tick
    ELSE this_beat_start_tick

\* lib.rs:181-183
next_beat_start(current_tick, this_beat_start_tick, tick_r_to_r) ==
    IF current_tick - this_beat_start_tick >= tick_r_to_r
    THEN current_tick
    ELSE this_beat_start_tick

\* lib.rs:178-202, 213  output_scaled + output_noise, with the tick it was
\* computed at and the noise list its noise was computed from
computed(l, d) ==
    LET beat == next_beat_start(l.current_tick, l.this_beat_start_tick, d.r_to_r)
    IN  [l EXCEPT
            !.this_beat_start_tick = beat,
            !.output = [tick |-> l.current_tick,
                        wave |-> waveform(l.current_tick, beat, d),
                        amplitude |-> l.amplitude,
                        noise |-> l.output_noise,
                        snapshot |-> l.snapshot,
                        afterReset |-> l.afterReset]]

\* lib.rs:178-211  the computation of the tick, which uses the locals of the
\* closure only, up to output_value.lock().unwrap()
loop_compute ==
    /\ ~crashed
    /\ loop.pc = "compute"
    /\ mutexOutput = {}
    /\ IF poisonOutput
       THEN /\ LoopPanics
            /\ UNCHANGED mutexOutput
       ELSE /\ mutexOutput' = {LoopThread}
            /\ loop' = [computed(loop, tick_lengths(profile.bpm, conversion_rate(loop)))
                           EXCEPT !.pc = "push"]
            /\ UNCHANGED <<heartRefs, outputRefs>>
    /\ UNCHANGED <<handle, profile, probe, active, attached_noises, output_value>>
    /\ UNCHANGED <<mutexHeart, mutexNoises, poisonHeart, poisonNoises, poisonOutput>>
    /\ UNCHANGED <<callerVars, crashed, historyVars>>

\* Variant of has_room: the bound is tested with <= instead of <.
has_room_inclusive(out_val) == Len(out_val) <= OutputLimit

\* lib.rs:212  the test that guards the push
has_room(out_val) == Len(out_val) < OutputLimit

\* Variant of push_output: the new sample is inserted at the front.
push_output_front(out_val, v) ==
    IF has_room(out_val) THEN <<v>> \o out_val ELSE out_val

\* Variant of push_output: a full buffer evicts its oldest sample.
push_output_evict(out_val, v) ==
    IF has_room(out_val) THEN Append(out_val, v) ELSE Append(Tail(out_val), v)

\* lib.rs:212-214
push_output(out_val, v) ==
    IF has_room(out_val) THEN Append(out_val, v) ELSE out_val

\* Variant of drop_output_guard: the guard outlives the block.
keep_output_guard(holders, t) == holders

\* lib.rs:215  the block ends: the guard out_val is dropped
drop_output_guard(holders, t) == holders \ {t}

\* lib.rs:212-215  push unless full, then the guard is dropped
loop_push ==
    /\ ~crashed
    /\ loop.pc = "push"
    /\ output_value' = push_output(output_value, loop.output)
    /\ appended' = IF output_value' # output_value
                   THEN Append(appended, loop.output) ELSE appended
    /\ mutexOutput' = drop_output_guard(mutexOutput, LoopThread)
    /\ loop' = [loop EXCEPT !.pc = "tick"]
    /\ UNCHANGED <<handle, heartRefs, outputRefs, profile, probe, active, attached_noises>>
    /\ UNCHANGED <<mutexHeart, mutexNoises, poisonHeart, poisonNoises, poisonOutput>>
    /\ UNCHANGED <<callerVars, crashed>>
    /\ UNCHANGED <<drained, swaps, spawns, resetDone>>

\* lib.rs:217
next_tick(current_tick) == current_tick + 1

\* lib.rs:217-218  current_tick += 1, then the sleep
loop_tick ==
    /\ ~crashed
    /\ loop.pc = "tick"
    /\ loop' = [loop EXCEPT !.pc = "lock_heart",
                            !.current_tick = next_tick(loop.current_tick)]
    /\ UNCHANGED <<engineVars, probe, lockVars, callerVars, crashed, historyVars>>

LoopStep ==
    \/ loop_init
    \/ loop_lock_heart
    \/ loop_lock_noises
    \/ loop_calculate_noise
    \/ loop_compute
    \/ loop_push
    \/ loop_tick

(***************************************************************************)
(* The boundary calls, wrappers.rs and freeing.rs.  A caller passes the    *)
(* pointer build_simple_heart returned, or a null pointer; it does not     *)
(* pass the pointer once free_simple_heart was called on it, and it does   *)
(* not call free_simple_heart while another call borrows the pointer.      *)
(***************************************************************************)
PtrSet == {"null", "handle"}

\* The host makes its calls from thread c1; it uses thread c2 for the calls
\* it makes while c1 is inside a call.
CanCall(c, ptr) ==
    /\ ~crashed
    /\ pc[c] = "idle"
    /\ c = "c2" => pc["c1"] # "idle"
    /\ ptr = "handle" => (handle = "live" /\ calls < MaxCalls)

\* if ptr.is_null() {return}: the call is over at once and nothing changed
\* (simple_heart_read hands back an empty array).
NullCall == UNCHANGED vars

Begin(c, op, freq, noise, first) ==
    /\ pc' = [pc EXCEPT ![c] = first]
    /\ call' = [call EXCEPT ![c] = [op |-> op, freq |-> freq, amplitude |-> 0, noise |-> noise]]
    /\ calls' = calls + 1
    /\ ret' = [ret EXCEPT ![c] = <<>>]
    /\ expect' = [expect EXCEPT ![c] = <<>>]

\* The call returns to the host.  The name of the call and, of a read, the
\* array it handed back stay with the thread until its next call.
Return(c) ==
    /\ pc' = [pc EXCEPT ![c] = "idle"]
    /\ call' = [call EXCEPT ![c] = [NoCall EXCEPT !.op = call[c].op]]

\* A panic that unwinds out of an extern "C" function aborts the process.
Abort ==
    /\ crashed' = TRUE

\* Variant of arc_clone: the Arc behind the pointer is used without a clone.
arc_no_clone(n) == n

\* wrappers.rs:16  Arc::clone(&heart): the strong count after the clone
arc_clone(n) == n + 1

\* wrappers.rs:13-16  null check, then Arc::clone(&heart)
simple_heart_start(c) ==
    \E freq \in FreqSet, ptr \in PtrSet :
        /\ CanCall(c, ptr)
        /\ IF ptr = "null"
           THEN NullCall
           ELSE /\ Begin(c, "start", freq, <<>>, "start_swap")
                /\ heartRefs' = arc_clone(heartRefs)
                /\ UNCHANGED <<handle, outputRefs, profile, probe, active, attached_noises, output_value>>
                /\ UNCHANGED <<lockVars, loop, crashed, historyVars>>

\* Variant of swap_active: the flag is loaded, not swapped.
load_active(old) == [stored |-> old, returned |-> old]

\* lib.rs:128  active.swap(true, SeqCst): the value stored and the value returned
swap_active(old) == [stored |-> TRUE, returned |-> old]

\* lib.rs:128-130  this.lock().unwrap().active.swap(true, ..); return if it was set
start_beat_swap(c) ==
    /\ ~crashed
    /\ pc[c] = "start_swap"
    /\ mutexHeart = {}
    /\ IF poisonHeart
       THEN /\ Abort
            /\ UNCHANGED <<active, heartRefs, outputRefs, pc, call, swaps>>
       ELSE /\ active' = swap_active(active).stored
            /\ swaps' = Append(swaps, [caller |-> c, freq |-> call[c].freq])
            /\ IF swap_active(active).returned
               THEN /\ Return(c)
                    /\ heartRefs' = heart_refs_after_drop(heartRefs)
                    /\ outputRefs' = output_refs_after_heart_drop(heartRefs, outputRefs)
               ELSE /\ pc' = [pc EXCEPT ![c] = "start_clone_output"]
                    /\ UNCHANGED <<heartRefs, outputRefs, call>>
            /\ UNCHANGED crashed
    /\ UNCHANGED <<handle, profile, probe, attached_noises, output_value>>
    /\ UNCHANGED <<lockVars, loop, ret, expect, calls>>
    /\ UNCHANGED <<appended, drained, spawns, resetDone>>

\* lib.rs:133  Arc::clone(&this.lock().unwrap().output_value)
start_beat_clone_output(c) ==
    /\ ~crashed
    /\ pc[c] = "start_clone_output"
    /\ mutexHeart = {}
    /\ IF poisonHeart
       THEN /\ Abort
            /\ UNCHANGED <<outputRefs, pc>>
       ELSE /\ outputRefs' = arc_clone(outputRefs)
            /\ pc' = [pc EXCEPT ![c] = "start_amplitude"]
            /\ UNCHANGED crashed
    /\ UNCHANGED <<handle, heartRefs, profile, probe, active, attached_noises, output_value>>
    /\ UNCHANGED <<lockVars, loop, call, ret, expect, calls, historyVars>>

\* lib.rs:135  this.lock().unwrap().amplitude
start_beat_amplitude(c) ==
    /\ ~crashed
    /\ pc[c] = "start_amplitude"
    /\ mutexHeart = {}
    /\ IF poisonHeart
       THEN /\ Abort
            /\ UNCHANGED <<pc, call>>
       ELSE /\ pc' = [pc EXCEPT ![c] = "start_spawn"]
            /\ call' = [call EXCEPT ![c].amplitude = profile.amplitude]
            /\ UNCHANGED crashed
    /\ UNCHANGED <<engineVars, probe, lockVars, loop, ret, expect, calls, historyVars>>

\* lib.rs:136  thread::spawn(move || ..): this, output_value, amplitude and
\* freq move into the closure
spawned_loop(freq, amplitude) ==
    [LoopNone EXCEPT !.pc = "spawned", !.freq = freq, !.amplitude = amplitude]

\* lib.rs:136, 220-221  thread::spawn, then start_beat returns
start_beat_spawn(c) ==
    /\ ~crashed
    /\ pc[c] = "start_spawn"
    /\ loop' = spawned_loop(call[c].freq, call[c].amplitude)
    /\ spawns' = Append(spawns, [caller |-> c, freq |-> call[c].freq])
    /\ Return(c)
    /\ UNCHANGED <<engineVars, probe, lockVars, ret, expect, calls, crashed>>
    /\ UNCHANGED <<appended, drained, swaps, resetDone>>

\* wrappers.rs:46-49  null check: a null pointer yields an empty array
simple_heart_read(c) ==
    \E ptr \in PtrSet :
        /\ CanCall(c, ptr)
        /\ IF ptr = "null"
           THEN NullCall
           ELSE /\ Begin(c, "read", 0, <<>>, "read_lock")
                /\ UNCHANGED <<engineVars, probe, lockVars, loop, crashed, historyVars>>

\* The samples pushed since output_value was last drained.
SinceDrain == SubSeq(appended, Len(drained) + 1, Len(appended))

\* wrappers.rs:50-56  match heart_ref.lock(): Err(_) yields an empty array
read_lock_heart(c) ==
    /\ ~crashed
    /\ pc[c] = "read_lock"
    /\ mutexHeart = {}
    /\ IF poisonHeart
       THEN /\ ret' = [ret EXCEPT ![c] = <<>>]
            /\ expect' = [expect EXCEPT ![c] = SinceDrain]
            /\ Return(c)
            /\ UNCHANGED mutexHeart
       ELSE /\ mutexHeart' = {c}
            /\ pc' = [pc EXCEPT ![c] = "read_values"]
            /\ UNCHANGED <<call, ret, expect>>
    /\ UNCHANGED <<engineVars, probe, loop, calls, crashed, historyVars>>
    /\ UNCHANGED <<mutexNoises, mutexOutput, poisonHeart, poisonNoises, poisonOutput>>

\* Variant of return_values: the buffer is not emptied.
return_values_keep(val) == [readvalue |-> val, val |-> val]

\* lib.rs:229-231  let slice = val.clone(); *val = vec![]; slice.to_vec()
return_values(val) == [readvalue |-> val, val |-> <<>>]

\* lib.rs:227-235, wrappers.rs:52-54  match self.output_value.lock(): the
\* drain under the guard of output_value, Err(_) => vec![]; then both guards
\* are dropped and the array is handed back
read_return_values(c) ==
    /\ ~crashed
    /\ pc[c] = "read_values"
    /\ mutexOutput = {}
    /\ IF poisonOutput
       THEN /\ ret' = [ret EXCEPT ![c] = <<>>]
            /\ UNCHANGED <<output_value, drained>>
       ELSE /\ ret' = [ret EXCEPT ![c] = return_values(output_value).readvalue]
            /\ output_value' = return_values(output_value).val
            /\ drained' = drained \o return_values(output_value).readvalue
    /\ expect' = [expect EXCEPT ![c] = SinceDrain]
    /\ mutexHeart' = {}
    /\ Return(c)
    /\ UNCHANGED <<handle, heartRefs, outputRefs, profile, probe, active, attached_noises>>
    /\ UNCHANGED <<mutexNoises, mutexOutput, poisonHeart, poisonNoises, poisonOutput>>
    /\ UNCHANGED <<loop, calls, crashed, appended, swaps, spawns, resetDone>>

\* wrappers.rs:66-75  null check, then the noise is built
simple_heart_add_noise(c) ==
    \E arg \in NoiseArgs, ptr \in PtrSet :
        /\ CanCall(c, ptr)
        /\ IF ptr = "null"
           THEN NullCall
           ELSE /\ Begin(c, "add_noise", 0, new_noise(arg), "noise_lock")
                /\ UNCHANGED <<engineVars, probe, lockVars, loop, crashed, historyVars>>

\* wrappers.rs:85-88  null check
simple_heart_reset_noise(c) ==
    \E ptr \in PtrSet :
        /\ CanCall(c, ptr)
        /\ IF ptr = "null"
           THEN NullCall
           ELSE /\ Begin(c, "reset_noise", 0, <<>>, "noise_lock")
                /\ UNCHANGED <<engineVars, probe, lockVars, loop, crashed, historyVars>>

\* wrappers.rs:76-81, 89-94  match heart_ref.lock(): Err(_) => return
noise_lock_heart(c) ==
    /\ ~crashed
    /\ pc[c] = "noise_lock"
    /\ mutexHeart = {}
    /\ IF poisonHeart
       THEN /\ Return(c)
            /\ UNCHANGED mutexHeart
       ELSE /\ mutexHeart' = {c}
            /\ pc' = [pc EXCEPT ![c] = "noise_update"]
            /\ UNCHANGED call
    /\ UNCHANGED <<engineVars, probe, loop, ret, expect, calls, crashed, historyVars>>
    /\ UNCHANGED <<mutexNoises, mutexOutput, poisonHeart, poisonNoises, poisonOutput>>

\* lib.rs:251  locked_noises.push(noise)
attach_noise(noises, noise) == Append(noises, noise)

\* Variant of reset_noise: the empty Vec goes to a copy, the list keeps
\* its noises.
reset_noise_copy(noises) == noises

\* lib.rs:257  *locked_noises = Vec::new()
reset_noise(noises) == <<>>

\* lib.rs:249-258, wrappers.rs:78-79, 91-92  self.attached_noises.lock()
\* .unwrap(), the update under the guard of attached_noises; then both guards
\* are dropped and the call returns
noise_update(c) ==
    /\ ~crashed
    /\ pc[c] = "noise_update"
    /\ mutexNoises = {}
    /\ IF poisonNoises
       THEN /\ Abort
            /\ UNCHANGED <<attached_noises, resetDone, pc, call, mutexHeart>>
       ELSE /\ attached_noises' = IF call[c].op = "add_noise"
                                  THEN attach_noise(attached_noises, call[c].noise)
                                  ELSE reset_noise(attached_noises)
            /\ resetDone' = (call[c].op = "reset_noise")
            /\ mutexHeart' = {}
            /\ Return(c)
            /\ UNCHANGED crashed
    /\ UNCHANGED <<handle, heartRefs, outputRefs, profile, probe, active, output_value>>
    /\ UNCHANGED <<mutexNoises, mutexOutput, poisonHeart, poisonNoises, poisonOutput>>
    /\ UNCHANGED <<loop, ret, expect, calls>>
    /\ UNCHANGED <<appended, drained, swaps, spawns>>

\* No other call is using the pointer behind the Box: start_beat works on
\* its own clone of the Arc.
NoBorrow(c) ==
    \A o \in Callers \ {c} :
        pc[o] \in {"idle", "start_swap", "start_clone_output",
                   "start_amplitude", "start_spawn"}

\* freeing.rs:19-23  drop(Box::from_raw(ptr)): the host's reference is dropped
free_simple_heart(c) ==
    \E ptr \in PtrSet :
        /\ CanCall(c, ptr)
        /\ IF ptr = "null"
           THEN NullCall
           ELSE /\ NoBorrow(c)
                /\ calls' = calls + 1
                /\ call' = [call EXCEPT ![c] = [NoCall EXCEPT !.op = "free"]]
                /\ handle' = "freed"
                /\ heartRefs' = heart_refs_after_drop(heartRefs)
                /\ outputRefs' = output_refs_after_heart_drop(heartRefs, outputRefs)
                /\ UNCHANGED <<profile, probe, active, attached_noises, output_value>>
                /\ UNCHANGED <<lockVars, loop, pc, ret, expect, crashed, historyVars>>

CallerStep(c) ==
    \/ simple_heart_start(c)
    \/ start_beat_swap(c)
    \/ start_beat_clone_output(c)
    \/ start_beat_amplitude(c)
    \/ start_beat_spawn(c)
    \/ simple_heart_read(c)
    \/ read_lock_heart(c)
    \/ read_return_values(c)
    \/ simple_heart_add_noise(c)
    \/ simple_heart_reset_noise(c)
    \/ noise_lock_heart(c)
    \/ noise_update(c)
    \/ free_simple_heart(c)

Next ==
    \/ LoopStep
    \/ \E c \in Callers : CallerStep(c)

Spec == Init /\ [][Next]_vars

(***************************************************************************)
(* Properties.                                                             *)
(***************************************************************************)
\* Every sample that left the loop, in the order the host gets it: the
\* arrays handed back so far, then what is still in output_value.
Stream == drained \o output_value

StartPcs == {"start_swap", "start_clone_output", "start_amplitude", "start_spawn"}

\* C1: in every reachable state, whatever the interleaving of the ticks of
\* the loop with start, read, add_noise and reset_noise calls, output_value
\* holds at most OutputLimit samples (5000 in the source).
C1_BufferBounded == Len(output_value) <= OutputLimit

\* C1 witness: the buffer is full and the loop has gone through a push with
\* the buffer full: the iteration of tick OutputLimit is past its push.
C1_Witness ==
    /\ Len(output_value) = OutputLimit
    /\ loop.pc = "tick"
    /\ loop.current_tick >= OutputLimit
    /\ Len(appended) < loop.current_tick + 1

\* C2: each read hands back exactly the samples pushed since the previous
\* drain, in the order they were pushed, and leaves the buffer empty, so that
\* the arrays handed back so far followed by the buffer are all the samples
\* pushed so far.
C2_ReadsExact ==
    /\ \A c \in Callers : ret[c] = expect[c]
    /\ Stream = appended

\* C3: however many start calls are made, one after the other or at the
\* same time, with the same or with different frequencies, thread::spawn is
\* called at most once, by the first call that did the swap on active and
\* with the frequency of that call; that call does spawn before it returns,
\* and no other call changes the frequency of the loop.
C3_OneLoop ==
    /\ Len(spawns) <= 1
    /\ spawns # <<>> => swaps # <<>> /\ spawns[1] = swaps[1]
    /\ (swaps # <<>> /\ spawns = <<>>) =>
          /\ pc[swaps[1].caller] \in StartPcs \ {"start_swap"}
          /\ call[swaps[1].caller].freq = swaps[1].freq
    /\ loop.pc # "none" <=> spawns # <<>>
    /\ loop.pc # "none" => loop.freq = swaps[1].freq

\* C3 witness: two start calls of different threads with different
\* frequencies both did the swap and returned, and the loop runs.
C3_Witness ==
    /\ Len(swaps) >= 2
    /\ swaps[1].caller # swaps[2].caller
    /\ swaps[1].freq # swaps[2].freq
    /\ \A c \in Callers : pc[c] = "idle"
    /\ LoopRunning
    /\ loop.current_tick >= 1

\* C4: the samples reach the host in strict tick order: in the arrays handed
\* back, one after the other, and then in the buffer, the tick of each sample
\* is greater than the tick of every sample before it.
C4_StrictTickOrder ==
    \A i, j \in 1..Len(Stream) : i < j => Stream[i].tick < Stream[j].tick

\* C4 witness: a read handed samples back and the buffer holds two more.
C4_Witness ==
    /\ drained # <<>>
    /\ Len(output_value) >= 2

\* C5: when the loop is at its push with output_value full, the step it takes
\* is enabled (it holds the lock and does not wait), it leaves the contents
\* of output_value as they are and releases the lock, and the step after it
\* adds one to current_tick.
C5_DropWhenFull ==
    /\ [](loop.pc = "push" /\ ~crashed => ENABLED loop_push)
    /\ [][(loop.pc = "push" /\ loop'.pc # "push" /\ Len(output_value) = OutputLimit)
            => (output_value' = output_value /\ loop'.pc = "tick" /\ mutexOutput' = {})]_vars
    /\ [][(loop.pc = "tick" /\ loop'.pc # "tick")
            => loop'.current_tick = loop.current_tick + 1]_vars

\* C5 witness: the sample of tick OutputLimit found the buffer full and was
\* dropped, and the loop moved on to the next tick.
C5_Witness ==
    /\ loop.pc = "lock_heart"
    /\ loop.current_tick = OutputLimit + 1
    /\ Len(appended) = OutputLimit
    /\ output_value = appended

\* C6: a read does not wait for data: its steps wait for the two locks only,
\* and a read that is served when no sample was pushed since the last drain,
\* as on an engine that was never started, hands back an empty array.
C6_ReadNeverWaits ==
    /\ \A c \in Callers : expect[c] = <<>> => ret[c] = <<>>
    /\ \A c \in Callers :
          (~crashed /\ pc[c] = "read_lock" /\ mutexHeart = {}) => ENABLED read_lock_heart(c)
    /\ \A c \in Callers :
          (~crashed /\ pc[c] = "read_values" /\ mutexOutput = {}) => ENABLED read_return_values(c)

\* C6 witness: a read returned on an engine that was never started.
C6_Witness ==
    /\ ~active
    /\ \E c \in Callers : pc[c] = "idle" /\ call[c].op = "read" /\ ret[c] = <<>>

\* C6 witness, second case: a read returned an empty array on a running
\* engine whose samples an earlier read had taken.
C6_WitnessDrained ==
    /\ drained # <<>>
    /\ \E c \in Callers : pc[c] = "idle" /\ call[c].op = "read" /\ ret[c] = <<>>

\* C7: while the loop runs, the engine and output_value are allocated,
\* whether the host released its handle or not: they are reclaimed only when
\* neither the handle nor the loop refers to them.
C7_NoUseAfterFree ==
    /\ LoopRunning => (HeartAllocated /\ OutputAllocated)
    /\ handle = "live" => (HeartAllocated /\ OutputAllocated)
    /\ ~HeartAllocated => (handle = "freed" /\ ~LoopRunning)

\* C7 witness: the host released the handle and the loop, some ticks later,
\* is about to push to output_value.
C7_Witness ==
    /\ handle = "freed"
    /\ loop.pc = "push"
    /\ loop.current_tick >= 1

\* C8: once a mutex of the engine is poisoned, no boundary call lets a panic
\* out: the process is not aborted.
C8_NoCrashAfterPoison ==
    (poisonHeart \/ poisonNoises \/ poisonOutput) => ~crashed

\* C9: once spawned, the loop does not end: its thread is never dead.
C9_LoopNeverEnds == loop.pc # "dead"

\* The sum of the terms of exactly the noises of the list, in list order.
SumOf(noises, tick, freq) ==
    [i \in 1..Len(noises) |-> get_tick_noise(noises[i], tick, freq)]

\* The samples that left the loop or are about to.
Computed ==
    { Stream[i] : i \in 1..Len(Stream) } \cup
    (IF loop.pc = "push" THEN {loop.output} ELSE {})

\* C10: the noise of every sample is the sum of the terms of exactly the
\* noises that were in the list when the loop took its copy under the lock;
\* a sample whose copy was taken after reset_noise cleared the list, and
\* before the next add_noise, has the empty sum, 0.0, as its noise.
C10_NoiseFromSnapshot ==
    \A s \in Computed :
        /\ s.noise = SumOf(s.snapshot, s.tick, loop.freq)
        /\ s.afterReset => (s.snapshot = <<>> /\ s.noise = <<>>)

\* C10 witness: a sample with a noise term was followed by a sample computed
\* after a reset_noise.
C10_Witness ==
    \E i, j \in 1..Len(Stream) :
        /\ i < j
        /\ Stream[i].noise # <<>>
        /\ Stream[j].afterReset

\* The mutex a thread needs for its next step, "none" when it needs none.
WaitsFor(t) ==
    IF t = LoopThread
    THEN CASE loop.pc = "lock_heart" -> "heart"
           [] loop.pc = "lock_noises" -> "noises"
           [] loop.pc = "compute" -> "output"
           [] OTHER -> "none"
    ELSE CASE pc[t] \in {"start_swap", "start_clone_output", "start_amplitude",
                          "read_lock", "noise_lock"} -> "heart"
           [] pc[t] = "noise_update" -> "noises"
           [] pc[t] = "read_values" -> "output"
           [] OTHER -> "none"

Holder(m) ==
    CASE m = "heart" -> mutexHeart
      [] m = "noises" -> mutexNoises
      [] m = "output" -> mutexOutput
      [] OTHER -> {}

\* The thread waits for a mutex that a thread holds.
Blocked(t) == Holder(WaitsFor(t)) # {}

\* C11: no set of threads waits in a cycle: there is no non-empty set of
\* threads each of which waits for a mutex of the engine that a thread of the
\* set holds, whatever the interleaving of the loop with the calls.
C11_NoLockCycle ==
    ~ \E D \in (SUBSET Threads) \ {{}} :
          \A t \in D : Blocked(t) /\ Holder(WaitsFor(t)) \subseteq D

\* C11 witness: a read holds the engine lock and waits for the buffer lock,
\* which the loop holds, while the other caller waits for the engine lock.
C11_Witness ==
    \E c \in Callers : \E o \in Callers \ {c} :
        /\ pc[c] = "read_values"
        /\ mutexHeart = {c}
        /\ mutexOutput = {LoopThread}
        /\ WaitsFor(o) = "heart"

\* The mutexes of the engine a thread holds.
Held(t) ==
    {m \in {"heart", "noises", "output"} : t \in Holder(m)}

\* C12: in every tick the loop holds no mutex of the engine while it computes
\* the beat position and the waveform and while it sleeps: the engine lock
\* and the attached_noises lock are released before the computation starts,
\* it holds the buffer lock only for the push, and the buffer lock is
\* released before current_tick += 1 and the sleep.
C12_NoLockWhileComputing ==
    /\ loop.pc \in {"compute", "tick", "lock_heart"} => Held(LoopThread) = {}
    /\ loop.pc = "push" => Held(LoopThread) = {"output"}

\* C12 witness: while the loop computes the waveform of a tick after the
\* first, a caller holds the engine lock.
C12_Witness ==
    /\ loop.pc = "compute"
    /\ loop.current_tick >= 1
    /\ \E c \in Callers : mutexHeart = {c}

\* The steps of a caller that is inside a call.
CallContinues(c) ==
    \/ start_beat_swap(c)
    \/ start_beat_clone_output(c)
    \/ start_beat_amplitude(c)
    \/ start_beat_spawn(c)
    \/ read_lock_heart(c)
    \/ read_return_values(c)
    \/ noise_lock_heart(c)
    \/ noise_update(c)

\* Fair scheduling: the spawned thread runs, and a caller inside a call takes
\* the step it is at if that step is possible again and again: the mutex it
\* waits for is handed to it at some point, which the loop's sleep outside
\* every guard allows.  The host is not obliged to make calls.
FairSpec ==
    /\ Spec
    /\ WF_vars(LoopStep)
    /\ \A c \in Callers : SF_vars(CallContinues(c))

\* The caller is inside a read, add_noise or reset_noise call.
InCall(c) == pc[c] \in {"read_lock", "read_values", "noise_lock", "noise_update"}

\* C13: under fair scheduling every read, add_noise and reset_noise call that
\* was made returns, whether the loop runs or not, as long as the process
\* lives.
C13_CallsReturn ==
    \A c \in Callers : InCall(c) ~> (pc[c] = "idle" \/ crashed)

\* C13 witness: with the loop running, a call waits behind the loop: an
\* add_noise or reset_noise call holds the engine lock and needs the
\* attached_noises lock, or a read needs the buffer lock, that the loop holds.
C13_Witness ==
    /\ LoopRunning
    /\ \E c \in Callers :
          /\ InCall(c)
          /\ Blocked(c)
          /\ Holder(WaitsFor(c)) = {LoopThread}

(***************************************************************************)
(* The functions of the program called on their own, on arguments of       *)
(* bounded sets: the call and what it returns are kept in probe.           *)
(***************************************************************************)
\* freq arguments of actual_thread_wait_time: 0 .. MaxProbeFreq
MaxProbeFreq == 1002
\* tick_now arguments of the segment functions and current_tick arguments
\* of get_tick_noise: 0 .. MaxProbeTick
MaxProbeTick == 8
\* tick_begin arguments of the segment functions: 0 .. MaxProbeBegin
MaxProbeBegin == 2
\* duration arguments of the segment functions: 0 .. MaxDuration
MaxDuration == 5
\* frequency of a MainsNoise and the _tick_freq it is given: 0 .. MaxHum
MaxHum == 5
\* The loop body is iterated for current_tick = 0 .. MaxBeatTick.
MaxBeatTick == 130

\* ampl arguments of the segment functions: a positive and a negative WaveAmps
ProbeAmps == {RWAVE, 0 - QWAVE}

\* the noises get_tick_noise is called on
ProbeNoises ==
    { new_noise([kind |-> "MainsNoise", amplitude |-> 1, frequency |-> f]) :
          f \in 0..MaxHum }
    \cup { new_noise([kind |-> "RandomNoise", amplitude |-> 1, frequency |-> 0]) }

\* (bpm, rate) of the engines whose loop body is iterated: beats of 62, 20,
\* 3 and 1 ticks
BeatProfiles == { <<120, 125>>, <<60, 20>>, <<20000, 1000>>, <<60, 1>> }

\* actual_thread_wait_time(freq)
call_actual_thread_wait_time ==
    /\ probe = NoProbe
    /\ \E freq \in 0..MaxProbeFreq :
          probe' = [fn |-> "actual_thread_wait_time",
                    freq |-> freq,
                    panics |-> wait_time_panics(freq),
                    result |-> IF wait_time_panics(freq)
                               THEN <<>>
                               ELSE actual_thread_wait_time(freq)]
    /\ UNCHANGED programVars

\* triangle(tick_now, tick_begin, duration, ampl)
call_triangle ==
    /\ probe = NoProbe
    /\ \E tick_now \in 0..MaxProbeTick, tick_begin \in 0..MaxProbeBegin,
          duration \in 0..MaxDuration, ampl \in ProbeAmps :
          probe' = [fn |-> "triangle",
                    tick_now |-> tick_now, tick_begin |-> tick_begin,
                    duration |-> duration, ampl |-> ampl,
                    shape |-> triangle_shape(tick_now, tick_begin, duration),
                    top |-> duration \div 2,
                    result |-> triangle(tick_now, tick_begin, duration, ampl)]
    /\ UNCHANGED programVars

\* second_order(tick_now, tick_begin, duration, ampl)
call_second_order ==
    /\ probe = NoProbe
    /\ \E tick_now \in 0..MaxProbeTick, tick_begin \in 0..MaxProbeBegin,
          duration \in 0..MaxDuration, ampl \in ProbeAmps :
          probe' = [fn |-> "second_order",
                    tick_now |-> tick_now, tick_begin |-> tick_begin,
                    duration |-> duration, ampl |-> ampl,
                    shape |-> second_order_shape(tick_now, tick_begin, duration),
                    top |-> (duration * duration) \div 4,
                    result |-> second_order(tick_now, tick_begin, duration, ampl)]
    /\ UNCHANGED programVars

\* noise.get_tick_noise(current_tick, tick_freq)
call_get_tick_noise ==
    /\ probe = NoProbe
    /\ \E n \in ProbeNoises, current_tick \in 0..MaxProbeTick,
          tick_freq \in 0..MaxHum :
          probe' = [fn |-> "get_tick_noise",
                    noise |-> n, current_tick |-> current_tick,
                    tick_freq |-> tick_freq,
                    panics |-> noise_panics(n),
                    result |-> IF noise_panics(n)
                               THEN <<>>
                               ELSE <<get_tick_noise(n, current_tick, tick_freq)>>]
    /\ UNCHANGED programVars

\* lib.rs:141-143  the closure of an engine of bpm at rate timings[1],
\* before its first tick
beat_loop_start ==
    /\ probe = NoProbe
    /\ \E pr \in BeatProfiles :
          probe' = [fn |-> "loop_body", bpm |-> pr[1], rate |-> pr[2],
                    l |-> [LoopNone EXCEPT !.pc = "compute",
                                           !.timings = <<1000 \div pr[2], pr[2]>>,
                                           !.amplitude = profile.amplitude],
                    outputs |-> <<>>]
    /\ UNCHANGED programVars

\* lib.rs:178-217  one iteration of the loop body without its locks and its
\* noise: the beat start, the waveform, current_tick += 1
beat_loop_tick ==
    /\ probe.fn = "loop_body"
    /\ probe.l.current_tick <= MaxBeatTick
    /\ LET l2 == computed(probe.l, tick_lengths(probe.bpm, probe.rate))
       IN  probe' = [probe EXCEPT
                        !.l = [l2 EXCEPT !.current_tick = next_tick(l2.current_tick)],
                        !.outputs = Append(@, [tick |-> l2.output.tick,
                                               beat |-> l2.this_beat_start_tick,
                                               wave |-> l2.output.wave])]
    /\ UNCHANGED programVars

FunctionNext ==
    \/ call_actual_thread_wait_time
    \/ call_triangle
    \/ call_second_order
    \/ call_get_tick_noise
    \/ beat_loop_start
    \/ beat_loop_tick

FunctionSpec == Init /\ [][FunctionNext]_vars

\* The value of a fraction <<num, den>> is v; a fraction with den = 0 is
\* not finite and has no value.
IsValue(x, v) == x[2] # 0 /\ x[1] = v * x[2]

Min(a, b) == IF a < b THEN a ELSE b

\* C14: for every freq, actual_thread_wait_time returns: its rate is
\* min(freq, 1000) and its wait time is floor(1000 / rate), at least 1 ms.
C14_TimingDefined ==
    probe.fn = "actual_thread_wait_time" =>
        /\ ~probe.panics
        /\ probe.result[2] = Min(probe.freq, 1000)
        /\ probe.result[1] = 1000 \div probe.result[2]
        /\ probe.result[1] >= 1

\* C14, for the frequencies the division is defined for: freq >= 1.
C14_TimingFromOne ==
    (probe.fn = "actual_thread_wait_time" /\ probe.freq >= 1) =>
        /\ ~probe.panics
        /\ probe.result[2] = Min(probe.freq, 1000)
        /\ probe.result[1] = 1000 \div probe.result[2]
        /\ probe.result[1] >= 1

SegmentCall == probe.fn \in {"triangle", "second_order"}

\* tick_now is outside [tick_begin, tick_begin + duration].
OutsideWindow ==
    \/ probe.tick_now < probe.tick_begin
    \/ probe.tick_now > probe.tick_begin + probe.duration

\* C16: for every tick_begin, duration and amplitude, both segment functions
\* return exactly 0.0 at every tick_now outside the window, and return the
\* amplitude at the tick tick_begin + duration / 2 (integer division).
C16_SegmentValues ==
    SegmentCall =>
        /\ OutsideWindow => probe.result = ZeroValue
        /\ probe.tick_now = probe.tick_begin + (probe.duration \div 2)
              => IsValue(probe.result, probe.ampl)

\* C16, for durations of at least 2 ticks, whose divisor is not zero.
C16_SegmentValuesFromTwo ==
    (SegmentCall /\ probe.duration >= 2) =>
        /\ OutsideWindow => probe.result = ZeroValue
        /\ probe.tick_now = probe.tick_begin + (probe.duration \div 2)
              => IsValue(probe.result, probe.ampl)

\* C16, first part alone, for every duration: exactly 0.0 outside the window.
C16_ZeroOutside ==
    (SegmentCall /\ OutsideWindow) => probe.result = ZeroValue

\* C17: a segment of duration 0 contributes 0 at every tick, tick_begin
\* included: what it returns is the finite value 0, and so is every lobe of
\* 0 ticks in the samples of the loop.
C17_ZeroDuration ==
    /\ (SegmentCall /\ probe.duration = 0) => IsValue(probe.result, 0)
    /\ probe.fn = "loop_body" =>
          LET d == tick_lengths(probe.bpm, probe.rate)
              len == <<d.p, d.q, d.r, d.s, d.t>>
          IN  \A i \in 1..Len(probe.outputs) : \A k \in 1..5 :
                  len[k] = 0 => IsValue(probe.outputs[i].wave[k], 0)

\* C20: for every duration >= 2 and every tick_now inside the window, the
\* integer shape term is between 0 and its value at the peak (duration / 2
\* for the triangle, duration * duration / 4 for the parabola).
C20_ShapeInRange ==
    (SegmentCall /\ probe.duration >= 2 /\ ~OutsideWindow) =>
        (0 <= probe.shape /\ probe.shape <= probe.top)

\* C20, for even durations, whose window is symmetric around the peak.
C20_ShapeInRangeEven ==
    (SegmentCall /\ probe.duration >= 2 /\ probe.duration % 2 = 0 /\ ~OutsideWindow) =>
        (0 <= probe.shape /\ probe.shape <= probe.top)

\* The term is exactly 0.0: the literal 0.0, or sin(0.0) * amplitude.
TermIsZero(term) ==
    \/ term.fn = "zero"
    \/ term.fn = "sin" /\ term.num = 0

\* C18: a MainsNoise whose frequency is greater than or equal to the
\* sampling rate it is given contributes exactly 0.0 at every tick, for
\* every rate the loop can hand over (tick_freq >= 1: the loop of freq = 0
\* ends before its first tick).
C18_MainsZeroAboveRate ==
    ( /\ probe.fn = "get_tick_noise"
      /\ probe.noise.kind = "MainsNoise"
      /\ probe.tick_freq >= 1
      /\ probe.noise.frequency >= probe.tick_freq )
    => (~probe.panics /\ TermIsZero(probe.result[1]))

\* C18 witness: the frequency equals the rate, the wave is one tick long and
\* the sine is taken, at a tick after the first.
C18_Witness ==
    /\ probe.fn = "get_tick_noise"
    /\ probe.noise.kind = "MainsNoise"
    /\ probe.tick_freq >= 2
    /\ probe.noise.frequency = probe.tick_freq
    /\ probe.current_tick >= 1
    /\ probe.result[1].fn = "sin"

\* C18 witness, second case: the frequency is above the rate and the
\* literal 0.0 is returned.
C18_WitnessAbove ==
    /\ probe.fn = "get_tick_noise"
    /\ probe.noise.kind = "MainsNoise"
    /\ probe.tick_freq >= 1
    /\ probe.noise.frequency > probe.tick_freq
    /\ probe.result[1].fn = "zero"

\* C19: at every tick of the loop and for every freq it was started with,
\* the rate handed to calculate_noise is the rate of the conversions of the
\* wave lengths and of the beat period to ticks, min(freq, 1000), and the
\* noise of every sample is the sum of the terms at that rate.
C19_NoiseRateIsActualRate ==
    /\ loop.pc \in {"lock_noises", "calculate_noise", "compute", "push", "tick"} =>
          /\ conversion_rate(loop) = Min(loop.freq, 1000)
          /\ noise_tick_freq(loop) = conversion_rate(loop)
    /\ \A sample \in Computed :
          sample.noise = SumOf(sample.snapshot, sample.tick, conversion_rate(loop))

====
